---- MODULE Spec2Model ----
(***************************************************************************)
(* A model of .github/scripts/discover-dependencies.py: the dependency     *)
(* graph builder, the Kahn-style topological sort, the transitive          *)
(* dependents query and the build-order query, as main() drives them; and  *)
(* of the version bumps that .github/scripts/semantic-version.py works out *)
(* from conventional commits.                                              *)
(*                                                                         *)
(* A Python dict is modelled as the sequence of its items in insertion     *)
(* order, each item a record [name, deps].                                 *)
(***************************************************************************)
EXTENDS Integers, Sequences, FiniteSets, TLC

VARIABLES
    modules,            \* build_dependency_graph: the modules find_modules returned
    idx,                \* build_dependency_graph: how many of them the loop has done
    dependency_graph,   \* the dict: a sequence of [name, deps] in insertion order
    pc,                 \* where main() is: "build", "built", "sort", "done"
    command,            \* args.command
    target_module,      \* args.module
    reverse_graph,      \* topological_sort: node -> the nodes that list it
    in_degree,          \* topological_sort: node -> in-graph dependencies not yet emitted
    queue,              \* topological_sort: the FIFO work list
    result,             \* topological_sort: the order built so far
    outcome,            \* what main() got: a value, or the exception it caught
    stack,              \* get_dependents: the calls of find_dependents under way
    found,              \* get_dependents: the set `dependents` the closure fills
    calls,              \* get_dependents: the calls of find_dependents made
    commits,            \* calculate_version_bumps: the commits handed in
    results,            \* calculate_version_bumps: the dict of bumps
    analyzed            \* calculate_version_bumps: the commits the loop has done

\* what the build and the sort leave alone
others == <<stack, found, calls, commits, results, analyzed>>

vars == <<modules, idx, dependency_graph, pc, command, target_module,
          reverse_graph, in_degree, queue, result, outcome, others>>

----------------------------------------------------------------------------
(* Bounds and universes *)

\* The module names, in the order in which the graphs of Spec first see them.
\* Names are opaque to the code (compared and hashed only), so a graph over
\* any four names is one of these up to renaming.  A name that is not a key
\* of the graph at hand plays the unknown name.
ModuleNames == <<"a", "b", "c", "d">>

NameSet == {ModuleNames[i] : i \in 1..Len(ModuleNames)}

\* Spec: the dependency entries of a graph, all lists together.
MaxEdges == 3

\* SpecBuild: the modules of a workspace, and their requirement strings,
\* all lists together.
MaxModules == 3

MaxRequirements == 2

\* SpecBump: the commits handed to calculate_version_bumps.
MaxCommits == 2

----------------------------------------------------------------------------
(* Sequences and dicts *)

Range(s) == {s[i] : i \in 1..Len(s)}

Contains(s, x) == \E i \in 1..Len(s) : s[i] = x

KeySet(G) == {G[i].name : i \in 1..Len(G)}

KeyIndex(G, k) == CHOOSE i \in 1..Len(G) : G[i].name = k

\* dependency_graph[k]
Get(G, k) == G[KeyIndex(G, k)].deps

\* dependency_graph.get(k, [])
GetOrEmpty(G, k) == IF k \in KeySet(G) THEN Get(G, k) ELSE <<>>

DictSetKeepFirst(G, k, v) ==
    IF k \in KeySet(G) THEN G ELSE Append(G, [name |-> k, deps |-> v])

\* d[k] = v: an existing key keeps its place and takes the new value
DictSet(G, k, v) ==
    IF k \in KeySet(G)
    THEN [G EXCEPT ![KeyIndex(G, k)].deps = v]
    ELSE Append(G, [name |-> k, deps |-> v])

RECURSIVE DictUpdate(_, _)
\* d.update(other)
DictUpdate(G, other) ==
    IF other = <<>> THEN G
    ELSE DictUpdate(DictSet(G, Head(other).name, Head(other).deps), Tail(other))

----------------------------------------------------------------------------
(* parse_module_dependencies and build_dependency_graph *)

\* A requirement string of [project].dependencies is a name followed by a
\* version specifier, which is empty for a bare name.
Requirements ==
    { [name |-> "a", specifier |-> ""],
      [name |-> "b", specifier |-> ""],
      [name |-> "a", specifier |-> ">=1"] }

\* any(char in dep for char in ">=~!<")
HasSpecifierChar(dep) == dep.specifier # ""

\* dep.split()[0].split(">=")[0]...: the text before the first specifier
DepName(dep) == dep.name

RECURSIVE LocalDeps(_)
\* the loop that keeps the requirements without a version specifier
LocalDeps(dependencies) ==
    IF dependencies = <<>> THEN <<>>
    ELSE LET dep == Head(dependencies)
             dep_name == DepName(dep)
         IN  IF dep_name # "" /\ ~HasSpecifierChar(dep)
             THEN <<dep_name>> \o LocalDeps(Tail(dependencies))
             ELSE LocalDeps(Tail(dependencies))

\* A module whose pyproject.toml cannot be read yields the empty dict,
\* any other the dict {module_name: local_deps}.
parse_module_dependencies(module) ==
    IF ~module.readable THEN <<>>
    ELSE <<[name |-> module.name, deps |-> LocalDeps(module.dependencies)]>>

----------------------------------------------------------------------------
(* topological_sort *)

RECURSIVE EdgeList(_, _, _)
\* the (node, dep) pairs in the order the nested loops visit them
EdgeList(G, i, j) ==
    IF i > Len(G) THEN <<>>
    ELSE IF j > Len(G[i].deps) THEN EdgeList(G, i + 1, 1)
    ELSE <<[node |-> G[i].name, dep |-> G[i].deps[j]]>> \o EdgeList(G, i, j + 1)

AddEdgeCountAll(st, node, dep) ==
    [reverse_graph |->
        IF dep \in DOMAIN st.reverse_graph
        THEN [st.reverse_graph EXCEPT ![dep] = Append(@, node)]
        ELSE st.reverse_graph,
     in_degree |-> [st.in_degree EXCEPT ![node] = @ + 1]]

AddEdgeForward(st, node, dep) ==
    IF dep \in DOMAIN st.reverse_graph
    THEN [reverse_graph |-> [st.reverse_graph EXCEPT ![node] = Append(@, dep)],
          in_degree |-> [st.in_degree EXCEPT ![dep] = @ + 1]]
    ELSE st

AddEdgeOncePerNode(st, node, dep) ==
    IF dep \in DOMAIN st.reverse_graph
    THEN [reverse_graph |->
              IF Contains(st.reverse_graph[dep], node)
              THEN st.reverse_graph
              ELSE [st.reverse_graph EXCEPT ![dep] = Append(@, node)],
          in_degree |-> [st.in_degree EXCEPT ![node] = @ + 1]]
    ELSE st

\* the body of the inner loop: an edge to a name that is no key is skipped
AddEdge(st, node, dep) ==
    IF dep \in DOMAIN st.reverse_graph
    THEN [reverse_graph |-> [st.reverse_graph EXCEPT ![dep] = Append(@, node)],
          in_degree |-> [st.in_degree EXCEPT ![node] = @ + 1]]
    ELSE st

RECURSIVE AddEdges(_, _)
AddEdges(st, edges) ==
    IF edges = <<>> THEN st
    ELSE AddEdges(AddEdge(st, Head(edges).node, Head(edges).dep), Tail(edges))

\* reverse_graph and in_degree as the loops leave them
ReverseGraph(G) ==
    AddEdges([reverse_graph |-> [node \in KeySet(G) |-> <<>>],
              in_degree |-> [node \in KeySet(G) |-> 0]],
             EdgeList(G, 1, 1))

RECURSIVE ZeroInDegree(_, _, _)
\* [node for node in in_degree if in_degree[node] == 0], in key order
ZeroInDegree(G, indeg, i) ==
    IF i > Len(G) THEN <<>>
    ELSE IF indeg[G[i].name] = 0
         THEN <<G[i].name>> \o ZeroInDegree(G, indeg, i + 1)
         ELSE ZeroInDegree(G, indeg, i + 1)

\* the state of topological_sort when it reaches its while loop
SortSetup(G) ==
    LET rg == ReverseGraph(G)
    IN  [reverse_graph |-> rg.reverse_graph,
         in_degree |-> rg.in_degree,
         queue |-> ZeroInDegree(G, rg.in_degree, 1),
         result |-> <<>>]

EnqueueFront(q, node) == <<node>> \o q

\* queue.append(dependent)
Enqueue(q, node) == Append(q, node)

RECURSIVE Relax(_, _, _)
\* for dependent in reverse_graph[current]: decrement, enqueue at zero
Relax(dependents, indeg, q) ==
    IF dependents = <<>> THEN [in_degree |-> indeg, queue |-> q]
    ELSE LET dependent == Head(dependents)
             nd == [indeg EXCEPT ![dependent] = @ - 1]
         IN  Relax(Tail(dependents), nd,
                   IF nd[dependent] = 0 THEN Enqueue(q, dependent) ELSE q)

\* one turn of the while loop
WhileBody(st) ==
    LET current == Head(st.queue)
        r == Relax(st.reverse_graph[current], st.in_degree, Tail(st.queue))
    IN  [reverse_graph |-> st.reverse_graph,
         in_degree |-> r.in_degree,
         queue |-> r.queue,
         result |-> Append(st.result, current)]

RECURSIVE WhileLoop(_)
\* the while loop, run until the queue is empty
WhileLoop(st) == IF st.queue = <<>> THEN st ELSE WhileLoop(WhileBody(st))

CircularDependency(remaining) ==
    [kind |-> "error", error |-> "CircularDependency", remaining |-> remaining]

SortFinishNoCheck(G, res) == [kind |-> "list", value |-> res]

\* what topological_sort does after the loop: raise, or return result
SortFinish(G, res) ==
    IF Len(res) # Len(G)
    THEN CircularDependency(KeySet(G) \ Range(res))
    ELSE [kind |-> "list", value |-> res]

\* topological_sort as a function of the graph
topological_sort(G) == SortFinish(G, WhileLoop(SortSetup(G)).result)

----------------------------------------------------------------------------
(* get_dependents *)

RECURSIVE find_dependents(_, _, _, _)
\* find_dependents(module), from item i of the graph on; acc is the closure's
\* dependents set and the number of calls of find_dependents made so far
find_dependents(G, module, i, acc) ==
    IF i > Len(G) THEN acc
    ELSE IF Contains(G[i].deps, module) /\ G[i].name \notin acc.dependents
         THEN find_dependents(G, module, i + 1,
                  find_dependents(G, G[i].name, 1,
                      [dependents |-> acc.dependents \cup {G[i].name},
                       calls |-> acc.calls + 1]))
         ELSE find_dependents(G, module, i + 1, acc)

DirectDependentsOnly(G, target) ==
    [dependents |-> {G[i].name : i \in {j \in 1..Len(G) : Contains(G[j].deps, target)}},
     calls |-> 1]

KnownTargetsOnly(G, target) ==
    IF target \in KeySet(G)
    THEN find_dependents(G, target, 1, [dependents |-> {}, calls |-> 1])
    ELSE [dependents |-> {}, calls |-> 1]

get_dependents(G, target) ==
    find_dependents(G, target, 1, [dependents |-> {}, calls |-> 1])

----------------------------------------------------------------------------
(* get_dependencies_up_to *)

\* full_order.index(target_module), counted from 0; -1 stands for ValueError
Index(full_order, target) ==
    IF Contains(full_order, target)
    THEN (CHOOSE i \in 1..Len(full_order) :
             /\ full_order[i] = target
             /\ \A j \in 1..(i - 1) : full_order[j] # target) - 1
    ELSE -1

ModuleNotFound(target) ==
    [kind |-> "error", error |-> "ModuleNotFound", module |-> target]

UpToExclusive(full_order, target) ==
    LET target_index == Index(full_order, target)
    IN  IF target_index >= 0
        THEN [kind |-> "list", value |-> SubSeq(full_order, 1, target_index)]
        ELSE ModuleNotFound(target)

UpToWholeOrder(full_order, target) ==
    [kind |-> "list", value |-> full_order]

\* the try block: full_order[:target_index + 1], or the ValueError
UpTo(full_order, target) ==
    LET target_index == Index(full_order, target)
    IN  IF target_index >= 0
        THEN [kind |-> "list", value |-> SubSeq(full_order, 1, target_index + 1)]
        ELSE ModuleNotFound(target)

----------------------------------------------------------------------------
(* The inputs *)

RECURSIVE SeqsOfLen(_, _)
SeqsOfLen(S, n) ==
    IF n = 0 THEN {<<>>}
    ELSE {Append(s, x) : s \in SeqsOfLen(S, n - 1), x \in S}

SeqsUpTo(S, n) == UNION {SeqsOfLen(S, k) : k \in 0..n}

\* the ways to cut a list of len entries into n consecutive lists: the
\* position at which each of the n lists ends
Cuts(n, len) ==
    {c \in [1..n -> 0..len] :
        /\ \A i \in 1..(n - 1) : c[i] <= c[i + 1]
        /\ IF n = 0 THEN len = 0 ELSE c[n] = len}

\* list i of the n lists that the cuts c make of flat
Slice(flat, c, i) == SubSeq(flat, (IF i = 1 THEN 0 ELSE c[i - 1]) + 1, c[i])

\* every dependency list of a graph, one after the other: at most MaxEdges
\* entries, each any name
EdgeLists == SeqsUpTo(NameSet, MaxEdges)

\* the graph whose keys are the first n names, in that order, and whose
\* dependency lists are the slices of flat
GraphOf(n, flat, c) ==
    [i \in 1..n |-> [name |-> ModuleNames[i], deps |-> Slice(flat, c, i)]]

\* what a module directory holds: a pyproject.toml that cannot be read, or
\* one that names the project
ProjectNames == {"a", "b"}

Unreadable == "unreadable"

RequirementLists == SeqsUpTo(Requirements, MaxRequirements)

\* the workspace of n module directories of the kinds given, whose
\* [project].dependencies are the slices of flat
WorkspaceOf(n, kinds, flat, c) ==
    [i \in 1..n |->
        IF kinds[i] = Unreadable
        THEN [readable |-> FALSE, name |-> "", dependencies |-> <<>>]
        ELSE [readable |-> TRUE, name |-> kinds[i],
              dependencies |-> Slice(flat, c, i)]]

NoOthers ==
    /\ stack = <<>>
    /\ found = {}
    /\ calls = 0
    /\ commits = <<>>
    /\ results = <<>>
    /\ analyzed = 0

NoSort ==
    /\ reverse_graph = <<>>
    /\ in_degree = <<>>
    /\ queue = <<>>
    /\ result = <<>>

\* main() with a graph built: topological_sort, get_dependents and
\* get_dependencies_up_to are functions of the graph alone
Init ==
    /\ modules = <<>>
    /\ idx = 0
    /\ \E n \in 0..Len(ModuleNames), flat \in EdgeLists :
          \E c \in Cuts(n, Len(flat)) :
             dependency_graph = GraphOf(n, flat, c)
    /\ pc = "built"
    /\ command = ""
    /\ target_module = ""
    /\ NoSort
    /\ outcome = [kind |-> "none"]
    /\ NoOthers

\* main() as it enters build_dependency_graph
InitBuild ==
    /\ \E n \in 0..MaxModules, flat \in RequirementLists :
          \E kinds \in [1..n -> ProjectNames \cup {Unreadable}], c \in Cuts(n, Len(flat)) :
             /\ \A i \in 1..n : kinds[i] = Unreadable => Slice(flat, c, i) = <<>>
             /\ modules = WorkspaceOf(n, kinds, flat, c)
    /\ idx = 0
    /\ dependency_graph = <<>>
    /\ pc = "build"
    /\ command = ""
    /\ target_module = ""
    /\ NoSort
    /\ outcome = [kind |-> "none"]
    /\ NoOthers

----------------------------------------------------------------------------
(* The steps of main() *)

\* build_dependency_graph: one turn of the loop over the modules
BuildStep ==
    /\ pc = "build"
    /\ idx < Len(modules)
    /\ dependency_graph' =
           DictUpdate(dependency_graph, parse_module_dependencies(modules[idx + 1]))
    /\ idx' = idx + 1
    /\ UNCHANGED others
    /\ UNCHANGED <<modules, pc, command, target_module, reverse_graph, in_degree,
                   queue, result, outcome>>

\* build_dependency_graph returns the dict
BuildReturn ==
    /\ pc = "build"
    /\ idx = Len(modules)
    /\ pc' = "built"
    /\ UNCHANGED others
    /\ UNCHANGED <<modules, idx, dependency_graph, command, target_module,
                   reverse_graph, in_degree, queue, result, outcome>>

\* topological_sort is entered and runs up to its while loop
EnterSort ==
    LET st == SortSetup(dependency_graph)
    IN  /\ reverse_graph' = st.reverse_graph
        /\ in_degree' = st.in_degree
        /\ queue' = st.queue
        /\ result' = st.result
        /\ pc' = "sort"

\* list
RunList ==
    /\ pc = "built"
    /\ command' = "list"
    /\ target_module' = ""
    /\ EnterSort
    /\ UNCHANGED others
    /\ UNCHANGED <<modules, idx, dependency_graph, outcome>>

\* build-order <module>: get_dependencies_up_to calls topological_sort
RunBuildOrder ==
    /\ pc = "built"
    /\ \E t \in NameSet :
          /\ command' = "build-order"
          /\ target_module' = t
    /\ EnterSort
    /\ UNCHANGED others
    /\ UNCHANGED <<modules, idx, dependency_graph, outcome>>

\* dependents <module>
RunDependents ==
    /\ pc = "built"
    /\ \E t \in NameSet :
          /\ command' = "dependents"
          /\ target_module' = t
          /\ outcome' = [kind |-> "set",
                         value |-> get_dependents(dependency_graph, t).dependents,
                         calls |-> get_dependents(dependency_graph, t).calls]
    /\ pc' = "done"
    /\ UNCHANGED others
    /\ UNCHANGED <<modules, idx, dependency_graph, reverse_graph, in_degree,
                   queue, result>>

\* dependencies <module>
RunDependencies ==
    /\ pc = "built"
    /\ \E t \in NameSet :
          /\ command' = "dependencies"
          /\ target_module' = t
          /\ outcome' = [kind |-> "list", value |-> GetOrEmpty(dependency_graph, t)]
    /\ pc' = "done"
    /\ UNCHANGED others
    /\ UNCHANGED <<modules, idx, dependency_graph, reverse_graph, in_degree,
                   queue, result>>

\* topological_sort: one turn of the while loop
SortStep ==
    /\ pc = "sort"
    /\ queue # <<>>
    /\ LET st == WhileBody([reverse_graph |-> reverse_graph, in_degree |-> in_degree,
                            queue |-> queue, result |-> result])
       IN  /\ in_degree' = st.in_degree
           /\ queue' = st.queue
           /\ result' = st.result
    /\ UNCHANGED others
    /\ UNCHANGED <<modules, idx, dependency_graph, pc, command, target_module,
                   reverse_graph, outcome>>

SortRaiseInsideTry ==
    /\ pc = "sort"
    /\ queue = <<>>
    /\ Len(result) # Len(dependency_graph)
    /\ outcome' = IF command = "build-order"
                  THEN ModuleNotFound(target_module)
                  ELSE SortFinish(dependency_graph, result)
    /\ pc' = "done"
    /\ UNCHANGED others
    /\ UNCHANGED <<modules, idx, dependency_graph, command, target_module,
                   reverse_graph, in_degree, queue, result>>

\* topological_sort raises: the ValueError passes through
\* get_dependencies_up_to, whose try block does not hold the call, to main()
SortRaise ==
    /\ pc = "sort"
    /\ queue = <<>>
    /\ Len(result) # Len(dependency_graph)
    /\ outcome' = SortFinish(dependency_graph, result)
    /\ pc' = "done"
    /\ UNCHANGED others
    /\ UNCHANGED <<modules, idx, dependency_graph, command, target_module,
                   reverse_graph, in_degree, queue, result>>

\* topological_sort returns to main()
SortReturn ==
    /\ pc = "sort"
    /\ queue = <<>>
    /\ Len(result) = Len(dependency_graph)
    /\ command = "list"
    /\ outcome' = SortFinish(dependency_graph, result)
    /\ pc' = "done"
    /\ UNCHANGED others
    /\ UNCHANGED <<modules, idx, dependency_graph, command, target_module,
                   reverse_graph, in_degree, queue, result>>

\* topological_sort returns to get_dependencies_up_to, which slices or raises
UpToReturn ==
    /\ pc = "sort"
    /\ queue = <<>>
    /\ Len(result) = Len(dependency_graph)
    /\ command = "build-order"
    /\ outcome' = UpTo(SortFinish(dependency_graph, result).value, target_module)
    /\ pc' = "done"
    /\ UNCHANGED others
    /\ UNCHANGED <<modules, idx, dependency_graph, command, target_module,
                   reverse_graph, in_degree, queue, result>>

NextBuild ==
    \/ BuildStep
    \/ BuildReturn

Next ==
    \/ RunList
    \/ RunBuildOrder
    \/ RunDependents
    \/ RunDependencies
    \/ SortStep
    \/ SortRaise
    \/ SortReturn
    \/ UpToReturn

\* the queries of main() on every graph within the bounds
Spec == Init /\ [][Next]_vars

\* build_dependency_graph on every workspace within the bounds
SpecBuild == InitBuild /\ [][NextBuild]_vars

----------------------------------------------------------------------------
(* get_dependents, call by call *)

\* a graph of four edges in which d is reached from a along two paths
DiamondGraph ==
    << [name |-> "a", deps |-> <<>>],
       [name |-> "b", deps |-> <<"a">>],
       [name |-> "c", deps |-> <<"a">>],
       [name |-> "d", deps |-> <<"b", "c">>] >>

\* main() with a graph built, as Init, or with the diamond
InitDependents ==
    /\ modules = <<>>
    /\ idx = 0
    /\ \/ \E n \in 0..Len(ModuleNames), flat \in EdgeLists :
             \E c \in Cuts(n, Len(flat)) :
                dependency_graph = GraphOf(n, flat, c)
       \/ dependency_graph = DiamondGraph
    /\ pc = "built"
    /\ command = ""
    /\ target_module = ""
    /\ NoSort
    /\ outcome = [kind |-> "none"]
    /\ NoOthers

FirstDependentUnguarded(G, module, i, seen) ==
    IF \E j \in i..Len(G) : Contains(G[j].deps, module)
    THEN CHOOSE j \in i..Len(G) :
             /\ Contains(G[j].deps, module)
             /\ \A h \in i..(j - 1) : ~Contains(G[h].deps, module)
    ELSE 0

\* the for loop of find_dependents(module), resumed at item i: the first item
\* from there on that lists module and is not yet in dependents; 0 when the
\* loop runs out
FirstDependent(G, module, i, seen) ==
    IF \E j \in i..Len(G) : Contains(G[j].deps, module) /\ G[j].name \notin seen
    THEN CHOOSE j \in i..Len(G) :
             /\ Contains(G[j].deps, module) /\ G[j].name \notin seen
             /\ \A h \in i..(j - 1) :
                   ~(Contains(G[h].deps, module) /\ G[h].name \notin seen)
    ELSE 0

\* the call of find_dependents that is running, and the item its loop is at
Top == stack[Len(stack)]

\* dependents <module>: get_dependents calls find_dependents(target_module)
EnterDependents ==
    /\ pc = "built"
    /\ \E t \in NameSet :
          /\ command' = "dependents"
          /\ target_module' = t
          /\ stack' = <<[module |-> t, i |-> 1]>>
    /\ found' = {}
    /\ calls' = 1
    /\ pc' = "dependents"
    /\ UNCHANGED <<modules, idx, dependency_graph, reverse_graph, in_degree,
                   queue, result, outcome, commits, results, analyzed>>

\* the loop of the running call finds a new dependent, adds it, and calls
\* find_dependents on it
CallFindDependents ==
    /\ pc = "dependents"
    /\ stack # <<>>
    /\ LET j == FirstDependent(dependency_graph, Top.module, Top.i, found)
       IN  /\ j # 0
           /\ found' = found \cup {dependency_graph[j].name}
           /\ stack' = Append([stack EXCEPT ![Len(stack)].i = j + 1],
                              [module |-> dependency_graph[j].name, i |-> 1])
    /\ calls' = calls + 1
    /\ UNCHANGED <<modules, idx, dependency_graph, pc, command, target_module,
                   reverse_graph, in_degree, queue, result, outcome, commits,
                   results, analyzed>>

\* the loop of the running call runs out: find_dependents returns
ReturnFindDependents ==
    /\ pc = "dependents"
    /\ stack # <<>>
    /\ FirstDependent(dependency_graph, Top.module, Top.i, found) = 0
    /\ stack' = SubSeq(stack, 1, Len(stack) - 1)
    /\ UNCHANGED <<modules, idx, dependency_graph, pc, command, target_module,
                   reverse_graph, in_degree, queue, result, outcome, found,
                   calls, commits, results, analyzed>>

\* get_dependents returns the set to main()
ReturnDependents ==
    /\ pc = "dependents"
    /\ stack = <<>>
    /\ outcome' = [kind |-> "set", value |-> found, calls |-> calls]
    /\ pc' = "done"
    /\ UNCHANGED <<modules, idx, dependency_graph, command, target_module,
                   reverse_graph, in_degree, queue, result, stack, found,
                   calls, commits, results, analyzed>>

NextDependents ==
    \/ EnterDependents
    \/ CallFindDependents
    \/ ReturnFindDependents
    \/ ReturnDependents

\* the dependents query, one call or return of find_dependents at a time;
\* the code runs it to the end without a pause
SpecDependents == InitDependents /\ [][NextDependents]_vars

\* the same with the interpreter taking a step whenever one is left to take
FairDependents == SpecDependents /\ WF_vars(NextDependents)

----------------------------------------------------------------------------
(* semantic-version.py: the conventional commits and the version bumps *)

\* A commit message is modelled as the sequence of its lexical pieces: the
\* words (\w+), the punctuation of the header, the blank line and the text
\* "BREAKING CHANGE: " that opens a footer.
BlankLine == "\n\n"

BreakingFooter == "BREAKING CHANGE: "

Punctuation == {"(", ")", "!", ": ", BlankLine, BreakingFooter}

\* \w+ and [\w\-\/]+ : one word
Word(piece) == piece \notin Punctuation

\* a regex group that did not take part in the match: None
None == ""

\* the same for a group of several pieces
NoText == <<>>

\* the commit hash plays no part in the bumps and is left out
NoMatch == [matched |-> FALSE]

RECURSIVE strip(_)
\* message.strip(): the white space at both ends goes
strip(message) ==
    IF message # <<>> /\ Head(message) = BlankLine
    THEN strip(Tail(message))
    ELSE IF message # <<>> /\ message[Len(message)] = BlankLine
         THEN strip(SubSeq(message, 1, Len(message) - 1))
         ELSE message

\* str.lower() on the pieces
Lower(piece) ==
    CASE piece = "M1" -> "m1"
      [] piece = BreakingFooter -> "breaking change: "
      [] OTHER -> piece

\* COMMIT_PATTERN.match(s).groupdict(): the type, the scope in brackets if
\* there is one, the "!" if there is one, ": ", and a description of one
\* character or more.  The description is greedy and the pattern is DOTALL,
\* so it takes the message to its end, blank lines included; the body and
\* the footer, both optional, are left with nothing and do not take part.
COMMIT_PATTERN(s) ==
    LET hasScope   == Len(s) >= 4 /\ s[2] = "(" /\ Word(s[3]) /\ s[4] = ")"
        afterScope == IF hasScope THEN 5 ELSE 2
        hasBang    == Len(s) >= afterScope /\ s[afterScope] = "!"
        colon      == IF hasBang THEN afterScope + 1 ELSE afterScope
    IN  IF /\ Len(s) > colon
           /\ Word(s[1])
           /\ s[colon] = ": "
        THEN [matched     |-> TRUE,
              type        |-> s[1],
              scope       |-> IF hasScope THEN s[3] ELSE None,
              breaking    |-> IF hasBang THEN "!" ELSE None,
              description |-> SubSeq(s, colon + 1, Len(s)),
              body        |-> NoText,
              footer      |-> NoText]
        ELSE NoMatch

\* ConventionalCommit._parse_message
_parse_message(message) ==
    LET match == COMMIT_PATTERN(strip(message))
    IN  IF ~match.matched THEN NoMatch
        ELSE [matched     |-> TRUE,
              type        |-> match.type,
              scope       |-> match.scope,
              breaking    |-> match.breaking,
              description |-> match.description,
              body        |-> match.body,
              footer      |-> match.footer,
              is_breaking |->
                  \/ match.breaking = "!"
                  \/ /\ match.footer # NoText
                     /\ Contains(match.footer, BreakingFooter)]

\* ConventionalCommit.__init__
ConventionalCommit(message) ==
    [message |-> message, parsed |-> _parse_message(message)]

VersionBump ==
    [MAJOR |-> "major", MINOR |-> "minor", PATCH |-> "patch", NONE |-> "none"]

COMMIT_TYPES ==
    [t \in {"feat", "fix", "docs", "style", "refactor", "perf", "test",
            "chore", "ci", "build", "revert"} |->
        CASE t = "feat" -> VersionBump.MINOR
          [] t \in {"fix", "refactor", "perf", "revert"} -> VersionBump.PATCH
          [] OTHER -> VersionBump.NONE]

\* ConventionalCommit.get_version_bump
get_version_bump(commit) ==
    IF ~commit.parsed.matched THEN VersionBump.NONE
    ELSE IF commit.parsed.is_breaking THEN VersionBump.MAJOR
    ELSE IF commit.parsed.type \in DOMAIN COMMIT_TYPES
         THEN COMMIT_TYPES[commit.parsed.type]
         ELSE VersionBump.NONE

\* ConventionalCommit.affects_module: the scope is the module name, or the
\* lower-cased name is found in the lower-cased message (the tests for
\* "modules/<name>" and "module <name>" are cases of the last one)
affects_module(commit, module_name) ==
    IF ~commit.parsed.matched THEN FALSE
    ELSE \/ commit.parsed.scope = module_name
         \/ \E i \in 1..Len(commit.message) :
               Lower(commit.message[i]) = Lower(module_name)

priority ==
    [b \in {VersionBump.NONE, VersionBump.PATCH, VersionBump.MINOR, VersionBump.MAJOR} |->
        CASE b = VersionBump.NONE -> 0
          [] b = VersionBump.PATCH -> 1
          [] b = VersionBump.MINOR -> 2
          [] b = VersionBump.MAJOR -> 3]

max_bump(bump1, bump2) ==
    IF priority[bump1] >= priority[bump2] THEN bump1 ELSE bump2

RECURSIVE InitialResults(_, _)
\* results = {"workspace": NONE}, then results[name] = NONE for each module
InitialResults(res, mods) ==
    IF mods = <<>> THEN res
    ELSE InitialResults(DictSet(res, Head(mods), VersionBump.NONE), Tail(mods))

RECURSIVE UpdateModules(_, _, _, _)
\* the inner loop of calculate_version_bumps over the modules
UpdateModules(res, mods, commit, commit_bump) ==
    IF mods = <<>> THEN res
    ELSE LET module_name == Head(mods)
             next == IF affects_module(commit, module_name)
                     THEN DictSet(res, module_name,
                                  max_bump(Get(res, module_name), commit_bump))
                     ELSE res
         IN  UpdateModules(next, Tail(mods), commit, commit_bump)

\* one turn of the loop of calculate_version_bumps over the commits
AnalyzeOne(res, mods, commit) ==
    LET commit_bump == get_version_bump(commit)
        workspace_affected ==
            ~ \E i \in 1..Len(mods) : affects_module(commit, mods[i])
        afterWorkspace ==
            IF workspace_affected
            THEN DictSet(res, "workspace",
                         max_bump(Get(res, "workspace"), commit_bump))
            ELSE res
    IN  IF commit_bump = VersionBump.NONE THEN res
        ELSE UpdateModules(afterWorkspace, mods, commit, commit_bump)

RECURSIVE AnalyzeAll(_, _, _)
AnalyzeAll(res, mods, cs) ==
    IF cs = <<>> THEN res
    ELSE AnalyzeAll(AnalyzeOne(res, mods, Head(cs)), mods, Tail(cs))

\* VersionManager.calculate_version_bumps, from the module names that
\* find_modules returned
calculate_version_bumps(mods, cs) ==
    AnalyzeAll(InitialResults(<< [name |-> "workspace", deps |-> VersionBump.NONE] >>, mods),
               mods, cs)

\* The commit messages: a type, plain or with "!" or with the scope m1, and a
\* description that names no module, or both modules, or is followed by a
\* blank line and a BREAKING CHANGE footer
Headers ==
    UNION { { <<t, ": ">>, <<t, "!", ": ">>, <<t, "(", "m1", ")", ": ">> } :
            t \in {"feat", "fix", "docs"} }

Descriptions ==
    { <<"x">>, <<"m1", "m2">>, <<"x", BlankLine, BreakingFooter, "y">> }

\* and besides: no header, a type outside the table, a scope in upper case,
\* a footer alone, a blank line at the end
Messages ==
    { h \o d : h \in Headers, d \in Descriptions }
    \cup { <<"x">>,
           <<"wip", ": ", "x">>,
           <<"fix", "(", "M1", ")", ": ", "x">>,
           <<BreakingFooter, "y">>,
           <<"fix", ": ", "m2", BlankLine>> }

\* VersionManager.find_modules: the sorted names of the module directories
ModuleLists == { <<>>, <<"m1", "m2">>, <<"workspace">> }

\* the analyze command with the commits read and the modules found
InitBump ==
    /\ modules \in ModuleLists
    /\ idx = 0
    /\ dependency_graph = <<>>
    /\ pc = "analyze"
    /\ command = "analyze"
    /\ target_module = ""
    /\ NoSort
    /\ outcome = [kind |-> "none"]
    /\ stack = <<>>
    /\ found = {}
    /\ calls = 0
    /\ \E messages \in SeqsUpTo(Messages, MaxCommits) :
          commits = [i \in 1..Len(messages) |-> ConventionalCommit(messages[i])]
    /\ results = <<>>
    /\ analyzed = 0

\* calculate_version_bumps up to its loop over the commits
EnterBumps ==
    /\ pc = "analyze"
    /\ results' = InitialResults(<< [name |-> "workspace", deps |-> VersionBump.NONE] >>,
                                 modules)
    /\ analyzed' = 0
    /\ pc' = "bump"
    /\ UNCHANGED <<modules, idx, dependency_graph, command, target_module,
                   reverse_graph, in_degree, queue, result, outcome,
                   stack, found, calls, commits>>

\* one commit of the loop
AnalyzeCommit ==
    /\ pc = "bump"
    /\ analyzed < Len(commits)
    /\ results' = AnalyzeOne(results, modules, commits[analyzed + 1])
    /\ analyzed' = analyzed + 1
    /\ UNCHANGED <<modules, idx, dependency_graph, pc, command, target_module,
                   reverse_graph, in_degree, queue, result, outcome,
                   stack, found, calls, commits>>

\* return results
ReturnBumps ==
    /\ pc = "bump"
    /\ analyzed = Len(commits)
    /\ outcome' = [kind |-> "bumps", value |-> results]
    /\ pc' = "done"
    /\ UNCHANGED <<modules, idx, dependency_graph, command, target_module,
                   reverse_graph, in_degree, queue, result,
                   stack, found, calls, commits, results, analyzed>>

NextBump ==
    \/ EnterBumps
    \/ AnalyzeCommit
    \/ ReturnBumps

SpecBump == InitBump /\ [][NextBump]_vars

----------------------------------------------------------------------------
(* Dependency paths, stated apart from the code *)

\* y is a key whose dependency list names x
Lists(G, y, x) == y \in KeySet(G) /\ Contains(Get(G, y), x)

RECURSIVE Grow(_, _, _)
Grow(G, S, n) ==
    IF n = 0 THEN S
    ELSE Grow(G, S \cup {y \in KeySet(G) : \E m \in S : Lists(G, y, m)}, n - 1)

\* the keys from which x is reached by one or more dependency edges
Reaching(G, x) == Grow(G, {y \in KeySet(G) : Lists(G, y, x)}, Len(G))

OnCycle(G, k) == k \in Reaching(G, k)

HasCycle(G) == \E k \in KeySet(G) : OnCycle(G, k)

\* the keys on a cycle, and the keys with a dependency path to one
Unresolvable(G) ==
    {k \in KeySet(G) : \E c \in KeySet(G) :
        OnCycle(G, c) /\ (k = c \/ k \in Reaching(G, c))}

\* the dependencies of m that are keys
InGraphDeps(G, m) == Range(Get(G, m)) \cap KeySet(G)

\* the entries of m's dependency list that are keys
InGraphEntries(G, m) == {j \in 1..Len(Get(G, m)) : Get(G, m)[j] \in KeySet(G)}

Pos(r, x) == CHOOSE i \in 1..Len(r) : r[i] = x

Sorting == pc \in {"sort", "done"} /\ command \in {"list", "build-order"}

Listed == pc = "done" /\ command = "list"

G0 == dependency_graph

----------------------------------------------------------------------------
(* The claims *)

\* C1: on an acyclic graph topological_sort returns, without error, a
\* sequence that holds every key exactly once and every in-graph dependency
\* of a module before that module.
C1_SortOrdersAcyclicGraph ==
    (Listed /\ ~HasCycle(G0)) =>
        /\ outcome.kind = "list"
        /\ Len(outcome.value) = Len(G0)
        /\ Range(outcome.value) = KeySet(G0)
        /\ \A i \in 1..Len(outcome.value) :
              \A d \in InGraphDeps(G0, outcome.value[i]) :
                 \E j \in 1..(i - 1) : outcome.value[j] = d

\* a sorted acyclic graph of four keys in which one module has two dependencies
C1_Witness ==
    /\ Listed
    /\ ~HasCycle(G0)
    /\ Len(G0) = 4
    /\ \E k \in KeySet(G0) : Cardinality(InGraphDeps(G0, k)) = 2
    /\ outcome.kind = "list"

\* C2: on a graph with a cycle (a self-dependency is one) topological_sort
\* fails with the circular-dependency error, and the names it carries are
\* exactly the keys on a cycle and the keys with a dependency path to one.
C2_CycleNamesUnresolvable ==
    (Listed /\ HasCycle(G0)) =>
        /\ outcome.kind = "error"
        /\ outcome.error = "CircularDependency"
        /\ outcome.remaining = Unresolvable(G0)

\* a failed sort that names a key off the cycle and leaves another key out
C2_Witness ==
    /\ Listed
    /\ outcome.kind = "error"
    /\ \E k \in outcome.remaining : ~OnCycle(G0, k)
    /\ \E k \in KeySet(G0) : k \notin outcome.remaining

\* C3: get_dependents(G, x) is exactly the set of keys from which x is
\* reached by a non-empty chain of dependency edges.
C3_DependentsAreTheReachingKeys ==
    (pc = "done" /\ command = "dependents") =>
        /\ outcome.kind = "set"
        /\ outcome.value = Reaching(G0, target_module)

\* a dependents query that returns a transitive dependent
C3_Witness ==
    /\ pc = "done"
    /\ command = "dependents"
    /\ \E y \in outcome.value : ~Lists(G0, y, target_module)

\* C4: on an acyclic graph and a key x, get_dependencies_up_to(G, x) is the
\* prefix of topological_sort(G) that ends at the first occurrence of x.
C4_UpToIsPrefixThroughTarget ==
    (pc = "done" /\ command = "build-order" /\ ~HasCycle(G0)
        /\ target_module \in KeySet(G0)) =>
        /\ outcome.kind = "list"
        /\ LET full == topological_sort(G0).value
           IN  \E n \in 1..Len(full) :
                  /\ full[n] = target_module
                  /\ \A j \in 1..(n - 1) : full[j] # target_module
                  /\ outcome.value = SubSeq(full, 1, n)

\* a build order that is a proper, non-trivial prefix of the full order
C4_Witness ==
    /\ pc = "done"
    /\ command = "build-order"
    /\ outcome.kind = "list"
    /\ Len(outcome.value) > 1
    /\ Len(outcome.value) < Len(result)

\* C5: on an acyclic graph and a target that is no key (a name that only
\* occurs in a dependency list included) get_dependencies_up_to fails with
\* the module-not-found error and returns no order.
C5_UpToUnknownTargetFails ==
    (pc = "done" /\ command = "build-order" /\ ~HasCycle(G0)
        /\ target_module \notin KeySet(G0)) =>
        /\ outcome.kind = "error"
        /\ outcome.error = "ModuleNotFound"
        /\ outcome.module = target_module

\* a failed build-order query whose target some module lists
C5_Witness ==
    /\ pc = "done"
    /\ command = "build-order"
    /\ target_module \notin KeySet(G0)
    /\ \E k \in KeySet(G0) : Lists(G0, k, target_module)
    /\ outcome.kind = "error"
    /\ outcome.error = "ModuleNotFound"

\* C6, as claimed: every query on a target that is no key fails with the
\* module-not-found error; so does get_dependents.
C6_EveryQueryFailsOnUnknownTarget ==
    (pc = "done" /\ command = "dependents" /\ target_module \notin KeySet(G0)) =>
        /\ outcome.kind = "error"
        /\ outcome.error = "ModuleNotFound"

\* C6, amended: the module-not-found error comes from get_dependencies_up_to
\* alone.  On a target that is no key get_dependents does not fail: it
\* returns the keys with a dependency path to the target, the empty set when
\* no key lists it; and the dependencies query returns the empty list.
C6_OnlyBuildOrderFailsOnUnknownTarget ==
    (pc = "done" /\ target_module \notin KeySet(G0)) =>
        /\ command = "dependents" =>
              /\ outcome.kind = "set"
              /\ outcome.value = Reaching(G0, target_module)
              /\ (outcome.value = {}) =
                    (\A k \in KeySet(G0) : ~Lists(G0, k, target_module))
        /\ command = "dependencies" => outcome = [kind |-> "list", value |-> <<>>]
        /\ (outcome.kind = "error" /\ outcome.error = "ModuleNotFound") =>
              command = "build-order"

\* a dependents query on an unknown name that returns modules
C6_Witness ==
    /\ pc = "done"
    /\ command = "dependents"
    /\ target_module \notin KeySet(G0)
    /\ outcome.kind = "set"
    /\ outcome.value # {}

\* G with the dependency entries that are no keys left out
Strip(G) ==
    LET IsKey(d) == d \in KeySet(G)
    IN  [i \in 1..Len(G) |-> [name |-> G[i].name, deps |-> SelectSeq(G[i].deps, IsKey)]]

\* C7: topological_sort tolerates dependency names that are no keys: they
\* add nothing to an in-degree, never enter the queue or the order, and
\* never cause an error: the sort ends as it does on the graph without
\* them, and a module with only such dependencies is queued from the start
\* like one with none.
C7_UnknownNamesAreIgnored ==
    Sorting =>
        /\ \A k \in KeySet(G0) :
              /\ in_degree[k] <= Cardinality(InGraphEntries(G0, k))
              /\ (pc = "sort" /\ result = <<>>) =>
                    in_degree[k] = Cardinality(InGraphEntries(G0, k))
              /\ InGraphDeps(G0, k) = {} => k \in Range(result) \cup Range(queue)
        /\ Range(result) \cup Range(queue) \subseteq KeySet(G0)
        /\ Listed => outcome = topological_sort(Strip(G0))

\* a graph sorted without error in which a module lists only unknown names
\* and another module depends on it
C7_Witness ==
    /\ Listed
    /\ outcome.kind = "list"
    /\ \E k \in KeySet(G0) :
          /\ Get(G0, k) # <<>>
          /\ InGraphDeps(G0, k) = {}
          /\ \E m \in KeySet(G0) : Lists(G0, m, k)

\* the modules the build loop has parsed so far whose pyproject.toml was read
Parsed == {i \in 1..idx : modules[i].readable}

\* the last of them that names the project k
LastNamed(k) ==
    CHOOSE i \in Parsed :
        /\ modules[i].name = k
        /\ \A j \in Parsed : modules[j].name = k => j <= i

\* the names of the requirements without a version specifier, in order
BareNames(dependencies) ==
    LET IsBare(dep) == dep.specifier = ""
        bare == SelectSeq(dependencies, IsBare)
    IN  [j \in 1..Len(bare) |-> bare[j].name]

\* C9: the builder maps every module name of its input to a dependency
\* list: the keys of the graph are the names of the modules parsed, each
\* once, none dropped, and a name that occurs more than once has the list of
\* its last occurrence.  (A module whose pyproject.toml cannot be read has no
\* name and no list: parse_module_dependencies hands the builder nothing.)
C9_BuilderKeepsEveryNameLastWins ==
    /\ KeySet(G0) = {modules[i].name : i \in Parsed}
    /\ Cardinality(KeySet(G0)) = Len(G0)
    /\ \A k \in KeySet(G0) : Get(G0, k) = BareNames(modules[LastNamed(k)].dependencies)
    /\ pc = "built" => idx = Len(modules)

\* a built graph of two names, one of them given twice with different lists
C9_Witness ==
    /\ pc = "built"
    /\ Len(G0) = 2
    /\ \E i \in Parsed, j \in Parsed :
          /\ i < j
          /\ modules[i].name = modules[j].name
          /\ BareNames(modules[i].dependencies) # BareNames(modules[j].dependencies)
          /\ Get(G0, modules[j].name) = BareNames(modules[j].dependencies)

\* the turn of the while loop at which m becomes ready: the place in the
\* order r of the last of its in-graph dependencies, 0 when it has none
ReadyAt(G, r, m) ==
    IF InGraphDeps(G, m) = {} THEN 0
    ELSE CHOOSE p \in {Pos(r, d) : d \in InGraphDeps(G, m)} :
             \A d \in InGraphDeps(G, m) : Pos(r, d) <= p

\* m is enqueued before n: it becomes ready at an earlier turn, or at the
\* same turn and comes first in key order
EnqueuedBefore(G, r, m, n) ==
    \/ ReadyAt(G, r, m) < ReadyAt(G, r, n)
    \/ /\ ReadyAt(G, r, m) = ReadyAt(G, r, n)
       /\ KeyIndex(G, m) < KeyIndex(G, n)

ExampleGraph ==
    << [name |-> "a", deps |-> <<>>],
       [name |-> "b", deps |-> <<"a">>],
       [name |-> "c", deps |-> <<"b">>],
       [name |-> "d", deps |-> <<"a">> ] >>

\* C10: topological_sort emits in FIFO Kahn order.  At every turn of the
\* loop the order so far followed by the queue holds exactly the keys whose
\* in-graph dependencies have all been emitted, each before the next in the
\* order in which they became ready (a strict total order, so each occurs
\* once; the keys ready from the start are in key order): so
\* the head of the queue is what is emitted next and a module joins the
\* queue, at its end, when its last dependency is emitted.  On
\* {a: [], b: [a], c: [b], d: [a]} the result is [a, b, d, c].
C10_FifoKahnOrder ==
    /\ Sorting =>
          LET line == result \o queue
          IN  /\ Range(line) = {k \in KeySet(G0) : InGraphDeps(G0, k) \subseteq Range(result)}
              /\ \A i \in 1..(Len(line) - 1) :
                    EnqueuedBefore(G0, result, line[i], line[i + 1])
    /\ (Listed /\ G0 = ExampleGraph) =>
          outcome = [kind |-> "list", value |-> <<"a", "b", "d", "c">>]

\* the example graph, sorted
C10_Witness ==
    /\ Listed
    /\ G0 = ExampleGraph
    /\ outcome.kind = "list"
    /\ outcome.value = <<"a", "b", "d", "c">>

\* C11: the circular-dependency error of the sort inside
\* get_dependencies_up_to reaches main() unchanged: on every graph with a
\* cycle the build-order query ends in the error topological_sort raises on
\* that graph, carrying the unresolved keys, and never in the
\* module-not-found error, whether or not the target is a key.
C11_UpToPassesCircularErrorOn ==
    (pc = "done" /\ command = "build-order" /\ HasCycle(G0)) =>
        /\ outcome.kind = "error"
        /\ outcome.error = "CircularDependency"
        /\ outcome.remaining = Unresolvable(G0)
        /\ outcome = topological_sort(G0)

\* a build-order query for a name that is no key, on a graph with a cycle
C11_Witness ==
    /\ pc = "done"
    /\ command = "build-order"
    /\ target_module \notin KeySet(G0)
    /\ outcome.kind = "error"
    /\ outcome.error = "CircularDependency"
    /\ outcome.remaining # {}

\* a build-order query for a key, on a graph with a cycle the key is not on
C11_WitnessKey ==
    /\ pc = "done"
    /\ command = "build-order"
    /\ target_module \in KeySet(G0)
    /\ outcome.kind = "error"
    /\ target_module \notin outcome.remaining

\* the entries of m's dependency list that name a key not in the order r
PendingEntries(G, r, m) ==
    {j \in InGraphEntries(G, m) : Get(G, m)[j] \notin Range(r)}

\* C13: at every turn of the loop of topological_sort, on any graph
\* (dependency lists that repeat a name included): no in-degree is negative,
\* the in-degree of a module is the number of its in-graph dependency
\* entries whose target is not yet emitted, no module is twice in the queue
\* and the result taken together, and the pops made and the pops still
\* queued are never more than there are keys.
C13_SortLoopInvariant ==
    Sorting =>
        /\ \A k \in KeySet(G0) :
              /\ in_degree[k] >= 0
              /\ in_degree[k] = Cardinality(PendingEntries(G0, result, k))
        /\ Cardinality(Range(result \o queue)) = Len(result) + Len(queue)
        /\ Len(result) + Len(queue) <= Len(G0)

\* in the middle of the loop, on a graph in which a module lists a key
\* twice, that key emitted and the module, ready, in the queue
C13_Witness ==
    /\ pc = "sort"
    /\ result # <<>>
    /\ \E k \in Range(queue) :
          \E i \in InGraphEntries(G0, k), j \in InGraphEntries(G0, k) :
             /\ i < j
             /\ Get(G0, k)[i] = Get(G0, k)[j]
             /\ Get(G0, k)[i] \in Range(result)

\* the calls and returns of find_dependents that can still follow: two for
\* every key not yet added, one for every call under way
StepsLeft == 2 * (Len(G0) + 1 - calls) + Len(stack)

\* what holds of the dependents query at every call and return
DependentsBounded ==
    pc \in {"dependents", "done"} =>
        /\ found \subseteq KeySet(G0)
        /\ calls = Cardinality(found) + 1
        /\ calls <= Len(G0) + 1
        /\ \A i \in 2..Len(stack), j \in 2..Len(stack) :
              i # j => stack[i].module # stack[j].module
        /\ StepsLeft >= 0
        /\ pc = "done" =>
              /\ outcome.value = Reaching(G0, target_module)
              /\ outcome.value = get_dependents(G0, target_module).dependents
              /\ outcome.calls = get_dependents(G0, target_module).calls

\* C12: get_dependents terminates on every graph, with cycles and with
\* diamonds: a module is added to the result, and find_dependents called on
\* it, at most once, so there are never more calls than keys plus one, and
\* every call and return leaves fewer steps to take; run without a pause,
\* the query comes to the return of the set.
C12_DependentsTerminate ==
    /\ []DependentsBounded
    /\ [][(pc = "dependents" /\ pc' = "dependents") => StepsLeft' < StepsLeft]_vars
    /\ <>(pc = "done")

\* the query on the first module of the diamond has returned, every other
\* module found, the last of them reached a second time and passed over
C12_Witness ==
    /\ pc = "done"
    /\ command = "dependents"
    /\ G0 = DiamondGraph
    /\ target_module = "a"
    /\ outcome.value = {"b", "c", "d"}
    /\ outcome.calls = 4

\* the query on a module of a cycle has returned, the module itself found
C12_WitnessCycle ==
    /\ pc = "done"
    /\ command = "dependents"
    /\ target_module \in outcome.value
    /\ Cardinality(outcome.value) = 3
    /\ outcome.calls = 4

----------------------------------------------------------------------------
(* The version bumps, stated apart from the code *)

\* the highest-priority bump of a set of bumps, none for the empty set
Highest(S) ==
    IF S = {} THEN "none"
    ELSE CHOOSE b \in S : \A c \in S : priority[b] >= priority[c]

\* the commits of the list that affect the module
Affecting(cs, module_name) ==
    {i \in 1..Len(cs) : affects_module(cs[i], module_name)}

\* the commits of the list that affect no module of the workspace
AffectingNone(cs, mods) ==
    {i \in 1..Len(cs) : \A k \in 1..Len(mods) : ~affects_module(cs[i], mods[k])}

\* a breaking commit of the Conventional Commits convention: a conventional
\* header with "!" before the colon, or with a BREAKING CHANGE footer after
\* a blank line
Breaking(commit) ==
    /\ commit.parsed.matched
    /\ \/ commit.parsed.breaking = "!"
       \/ \E i \in 1..(Len(commit.message) - 1) :
             /\ commit.message[i] = BlankLine
             /\ commit.message[i + 1] = BreakingFooter

\* the list in another order
Reordered(cs, p) == [i \in 1..Len(cs) |-> cs[p[i]]]

BumpsReturned == pc = "done" /\ command = "analyze"

\* the returned dict holds, for every module, the highest bump among the
\* commits that affect it, and for "workspace" the highest bump among the
\* commits that affect no module
HighestBumps ==
    /\ \A k \in 1..Len(modules) :
          Get(outcome.value, modules[k]) =
             Highest({get_version_bump(commits[i]) :
                         i \in Affecting(commits, modules[k])})
    /\ Get(outcome.value, "workspace") =
          Highest({get_version_bump(commits[i]) :
                      i \in AffectingNone(commits, modules)})

\* the returned dict is the one of every other ordering of the commits
SameForEveryOrdering ==
    \A p \in Permutations(1..Len(commits)) :
        calculate_version_bumps(modules, Reordered(commits, p)) = outcome.value

\* every breaking commit counts as major
BreakingIsMajor ==
    \A i \in 1..Len(commits) :
        Breaking(commits[i]) => get_version_bump(commits[i]) = "major"

\* C14: calculate_version_bumps returns, for every module, the highest
\* bump (none < patch < minor < major) among the commits that affect the
\* module, and for "workspace" the highest bump among the commits that
\* affect no module; the result is the same for every ordering of the
\* commits, and a breaking commit always counts as major.
C14_HighestBumpsBreakingIsMajor ==
    BumpsReturned =>
        /\ HighestBumps
        /\ SameForEveryOrdering
        /\ BreakingIsMajor

\* C14, the part that holds.  When no module directory is named
\* "workspace", the dict holds the highest bumps as C14 says, whatever the
\* order of the commits; and a commit whose header carries "!" counts as
\* major.
C14_HighestBumpsBangIsMajor ==
    BumpsReturned =>
        /\ ~Contains(modules, "workspace") => HighestBumps
        /\ SameForEveryOrdering
        /\ \A i \in 1..Len(commits) :
              (commits[i].parsed.matched /\ commits[i].parsed.breaking = "!")
                 => get_version_bump(commits[i]) = "major"

\* a feature commit with a BREAKING CHANGE footer that affects no module
\* has been analyzed, and the workspace bump returned is minor
C14_FooterIsMinor ==
    /\ BumpsReturned
    /\ commits = << ConventionalCommit(<<"feat", ": ", "x", BlankLine, BreakingFooter, "y">>) >>
    /\ Get(outcome.value, "workspace") = "minor"

\* a fix that affects no module has been analyzed in a workspace whose one
\* module is named "workspace": the module's entry is the workspace's
C14_WorkspaceModule ==
    /\ BumpsReturned
    /\ modules = <<"workspace">>
    /\ commits = << ConventionalCommit(<<"fix", ": ", "x">>) >>
    /\ Get(outcome.value, "workspace") = "patch"

====
